---- MODULE Spec2Model ----
(***************************************************************************)
(* Evaluation-and-lifecycle engine of the Solana trading bot prototypes    *)
(* (solana_bot_v1.py .. solana_bot_v6_gpt.py): the discovery loop main(),  *)
(* the evaluation functions (score_token, categorize_token,                *)
(* advanced_rug_pull_check), buy_token / sell_token and one                *)
(* monitor_position thread per opened position.                            *)
(*                                                                         *)
(* Units.  Dollar amounts (market cap, liquidity, volume) are whole USD.   *)
(* Prices are counted in units of 0.00005 USD, so 0.0001 USD = 2 and       *)
(* 0.1 USD = 2000; prices reported by the feed are even numbers, and an    *)
(* odd number stands for a binary floating-point value lying strictly      *)
(* between two neighbouring feed prices (0.1 * 1.5 is 0.15000000000000002  *)
(* in IEEE-754 doubles, 0.1 * 1.4 is 0.13999999999999999).                 *)
(* Scores are counted in millionths: 2.0 = 2000000.                        *)
(***************************************************************************)
EXTENDS Integers, Sequences, FiniteSets, TLC

\* ------------------------------------------------------------------ bounds
\* largest number of records in one snapshot returned by the feed
MaxSnap == 1
\* largest number of monitor threads started in one run
MaxMonitors == 2

\* --------------------------------------------------------- configuration
Revisions == {"v1", "v2", "v3", "v4", "v5", "v6"}
\* revisions that filter by score before the dedup test
ScoringRevs == {"v4", "v5", "v6"}
\* revisions whose execute_trade has a live mode
LiveRevs == {"v5", "v6"}

\* a field the record does not carry (token.get returns its default)
Absent == -1
\* a field whose value float() cannot parse
NonNumeric == -2

PriceUnitsPerUsd == 20000

RISK_AMOUNT(r) == IF r \in {"v5", "v6"} THEN 10 ELSE 1
\* in tenths
PROFIT_TARGET_MULTIPLIER(r) ==
  CASE r = "v5" -> 15
    [] r = "v6" -> 14
    [] OTHER -> 20
\* in tenths
STOP_LOSS_RATIO == 8
\* in millionths
MIN_SCORE_THRESHOLD == 2000000
MIN_MARKET_CAP == 100000
\* volume floor of advanced_rug_pull_check, USD
MIN_VOLUME == 1000
\* price floor of advanced_rug_pull_check: 0.0001 USD
MIN_PRICE == 2
\* the fixed price 0.1 USD of a simulated trade and of every position
SIMULATED_PRICE == 2000

\* config.json of v6 (coin_blacklist, dev_blacklist)
CoinBlacklist == {"X"}
DevBlacklist == {"D"}

\* ------------------------------------------------------------ the feed
\* One token record of the feed.  tokenAddress, symbol and devAddress are
\* strings, "" when the record does not carry the field.
Rec(addr, sym, mc, fdv, liq, vol, price, age, t1h) ==
  [tokenAddress |-> addr, symbol |-> sym, marketCapUsd |-> mc, fdvUsd |-> fdv,
   liquidityUsd |-> liq, volumeUsd24Hr |-> vol, priceUsd |-> price,
   pairAgeHours |-> age, txns1h |-> t1h, txns24h |-> Absent,
   volumeUsd6h |-> Absent, devAddress |-> "", supplyBundled |-> FALSE]

\* the record of the end-to-end scenario: Very Degen, score 5 + 1.2 + 1.5
VeryDegenRecord == Rec("A", "S", 500000, 500000, 60000, 1500000, 2000, 10, 40)

Catalogue ==
  { VeryDegenRecord,
    \* the same address under another symbol, at 0.15 USD
    Rec("A", "T", 500000, 500000, 60000, 1500000, 3000, 10, 40),
    \* another address under the same symbol, at 0.2 USD
    Rec("B", "S", 500000, 500000, 60000, 1500000, 4000, 10, 40),
    \* no symbol, score 1.202, passes the floor checks, at 0.08 USD
    Rec("B", "", 100000, 100000, 10000, 2000, 1600, 10, 40),
    \* no address
    Rec("", "T", 500000, 500000, 60000, 1500000, 2000, 10, 40),
    \* no market cap, score 0 + 2 + 1.5, at 0.1 USD
    Rec("B", "U", Absent, Absent, 100000, 1500000, 2000, 10, 40) }

\* One record for each tier of categorize_token, and one meeting both the
\* Very Degen and the Degen predicate; all score >= 2.0 and pass the floors.
BothTiersRecord == Rec("A", "S", 500000, 500000, 60000, 1500000, 2000, 10, 100)
DegenRecord == Rec("A", "S", 500000, 500000, 60000, 1500000, 2000, 60, 100)
MidCapsRecord ==
  [Rec("A", "S", 1000000, 1000000, 100000, 1200000, 2000, 100, 0)
     EXCEPT !.txns24h = 30]
OldMidCapsRecord ==
  [Rec("A", "S", 200000, 200000, 100000, 200000, 2000, 720, 0)
     EXCEPT !.txns24h = 2000]
LargerMidCapsRecord ==
  [Rec("A", "S", 1000000, 1000000, 200000, 1000, 2000, 100, 0)
     EXCEPT !.volumeUsd6h = 150000]
NoTierRecord == Rec("A", "S", 500000, 500000, 60000, 1500000, 2000, 100, 0)

TierRecords ==
  { VeryDegenRecord, BothTiersRecord, DegenRecord, MidCapsRecord,
    OldMidCapsRecord, LargerMidCapsRecord, NoTierRecord }

\* values each field of a record is varied over: around every threshold the
\* evaluation functions compare it with, absent, and not a number
FieldValues ==
  [ tokenAddress |-> {"A", "X", "x", ""},
    devAddress |-> {"", "D", "d"},
    supplyBundled |-> {FALSE, TRUE},
    marketCapUsd |-> {NonNumeric, Absent, 0, 99999, 100000, 1000000},
    fdvUsd |-> {NonNumeric, Absent, 0, 99999, 100000, 1000000, 100000001},
    liquidityUsd |-> {NonNumeric, Absent, 9999, 10000, 15000, 100000, 200000},
    volumeUsd24Hr |-> {NonNumeric, Absent, 0 - 5, 0, 999, 1000, 200000, 1200000},
    priceUsd |-> {NonNumeric, Absent, 0, 2, 2000, 4000},
    pairAgeHours |-> {NonNumeric, Absent, 0, 1, 48, 49, 72, 73, 720, 2800, 2801},
    txns1h |-> {NonNumeric, Absent, 29, 30, 99, 100},
    txns24h |-> {NonNumeric, Absent, 29, 30, 1999, 2000},
    volumeUsd6h |-> {NonNumeric, Absent, 149999, 150000} ]

\* the records the evaluation functions are applied to: every tier record
\* with one field varied
EvalRecords ==
  UNION { {[b EXCEPT ![f] = v] : v \in FieldValues[f]} :
            b \in TierRecords, f \in DOMAIN FieldValues }

RECURSIVE SeqsUpTo(_, _)
SeqsUpTo(S, n) ==
  IF n = 0 THEN {<<>>}
  ELSE LET shorter == SeqsUpTo(S, n - 1)
       IN shorter \cup {Append(s, x) : s \in {q \in shorter : Len(q) = n - 1}, x \in S}

\* the lists of records the feed serves
Snapshots == SeqsUpTo(Catalogue, MaxSnap)

\* The body of a feed response as fetch_tokens sees it after response.json():
\*   shape  "list" (a JSON list), "object" (a JSON object), "scalar" (any
\*          other JSON value), "invalid" (requests.get or response.json()
\*          raised);
\*   key    the field of the object that holds the records;
\*   field  what that field holds: "list", "null" or "number" (a number
\*          other than 0);
\*   items  the records of the list;
\*   status the HTTP status code of the response (200 unless stated).
Response(shape, key, field, items) ==
  [shape |-> shape, key |-> key, field |-> field, items |-> items, status |-> 200]

\* the same body sent with the status 500 Internal Server Error
HttpError(resp) == [resp EXCEPT !.status = 500]

\* the field of the response object fetch_tokens reads
DataKey(r) == IF r \in {"v1", "v2"} THEN "pairs" ELSE "data"

\* the response a healthy feed gives revision r for the records tokens
WellFormed(r, tokens) ==
  IF r \in {"v1", "v2"} THEN Response("object", "pairs", "list", tokens)
  ELSE Response("list", "", "list", tokens)

\* what fetch_tokens returns: kind "list" with its items, "none" for
\* Python's None, "number" for a number other than 0
Returned(kind, items) == [kind |-> kind, items |-> items]

\* data.get(key, []) on a JSON object
GetField(r, resp) ==
  IF resp.key # DataKey(r) THEN Returned("list", <<>>)
  ELSE CASE resp.field = "list" -> Returned("list", resp.items)
         [] resp.field = "null" -> Returned("none", <<>>)
         [] OTHER -> Returned("number", <<>>)

\* fetch_tokens.  v1 and v2 call data.get on whatever response.json()
\* returned, so a list or a scalar raises AttributeError inside the try;
\* v3..v6 test isinstance(data, list) and isinstance(data, dict) first.
\* response.status_code is printed (v3..v6) and never tested.
fetch_tokens(r, resp) ==
  CASE resp.shape = "invalid" -> Returned("list", <<>>)
    [] resp.shape = "object" -> GetField(r, resp)
    [] resp.shape = "list" ->
         IF r \in {"v1", "v2"} THEN Returned("list", <<>>)
         ELSE Returned("list", resp.items)
    [] OTHER -> Returned("list", <<>>)

\* ------------------------------------------------------ pure evaluation
\* float(token.get(key, 0)): the value, 0 when absent; raises on a
\* non-numeric value
Raises(v) == v = NonNumeric
Float_DefaultIsBuyPrice(v) == IF v = Absent THEN SIMULATED_PRICE ELSE v

Float(v) == IF v = Absent THEN 0 ELSE v

\* token.get("marketCapUsd", token.get("fdvUsd", 0)), then 0 when falsy
MarketCapOrFdv(t) ==
  IF t.marketCapUsd # Absent THEN t.marketCapUsd
  ELSE IF t.fdvUsd # Absent THEN t.fdvUsd ELSE 0

\* token.get("fdvUsd", token.get("marketCapUsd", 0)), then 0 when falsy
FdvOrMarketCap(t) ==
  IF t.fdvUsd # Absent THEN t.fdvUsd
  ELSE IF t.marketCapUsd # Absent THEN t.marketCapUsd ELSE 0

\* the fields score_token parses with float()
ScoreRaises(t) ==
  Raises(MarketCapOrFdv(t)) \/ Raises(t.liquidityUsd) \/ Raises(t.volumeUsd24Hr)

score_token_LiquidityPenalty(t) ==
  IF ScoreRaises(t)
  THEN 0
  ELSE 10 * MarketCapOrFdv(t) - 20 * Float(t.liquidityUsd) + Float(t.volumeUsd24Hr)

\* score in millionths; 0 when a field cannot be parsed
score_token(t) ==
  IF ScoreRaises(t)
  THEN 0
  ELSE 10 * MarketCapOrFdv(t) + 20 * Float(t.liquidityUsd) + Float(t.volumeUsd24Hr)

ScoreFilterPasses(t) == score_token(t) >= MIN_SCORE_THRESHOLD

\* filter_tokens: the records of the snapshot with score >= min_score, in order
filter_tokens(tokens) == SelectSeq(tokens, ScoreFilterPasses)

verify_volume(t) == Float(t.volumeUsd24Hr) > 0
check_rug_status(addr) == TRUE
check_supply(t) == ~t.supplyBundled

\* str.lower() on the addresses of the model
Lower(s) ==
  CASE s = "A" -> "a"
    [] s = "B" -> "b"
    [] s = "X" -> "x"
    [] s = "D" -> "d"
    [] OTHER -> s

coin_in_blacklist(t) == Lower(t.tokenAddress) \in {Lower(x) : x \in CoinBlacklist}
dev_in_blacklist(t) == Lower(t.devAddress) \in {Lower(x) : x \in DevBlacklist}

\* the fields categorize_token parses with float()
CategorizeRaises(t) ==
  \/ Raises(t.liquidityUsd) \/ Raises(FdvOrMarketCap(t)) \/ Raises(t.pairAgeHours)
  \/ Raises(t.txns1h) \/ Raises(t.txns24h) \/ Raises(t.volumeUsd24Hr)
  \/ Raises(t.volumeUsd6h)

\* the two early returns of categorize_token: blacklists and supply, then
\* verified volume and rug status
HardReject(t) ==
  \/ coin_in_blacklist(t) \/ dev_in_blacklist(t) \/ ~check_supply(t)
  \/ ~verify_volume(t) \/ ~check_rug_status(t.tokenAddress)

\* the predicate of each tier of categorize_token, on parsed fields
TierHolds(tier, t) ==
  LET liquidity == Float(t.liquidityUsd)
      fdv == FdvOrMarketCap(t)
      pair_age == Float(t.pairAgeHours)
      txns1h == Float(t.txns1h)
      txns24h == Float(t.txns24h)
      volume24h == Float(t.volumeUsd24Hr)
      volume6h == Float(t.volumeUsd6h)
  IN CASE tier = "Very Degen" ->
            liquidity >= 10000 /\ fdv >= 100000 /\ 0 <= pair_age /\ pair_age <= 48
            /\ txns1h >= 30
       [] tier = "Degen" ->
            liquidity >= 15000 /\ fdv >= 100000 /\ 1 <= pair_age /\ pair_age <= 72
            /\ txns1h >= 100
       [] tier = "Mid-Caps" ->
            liquidity >= 100000 /\ fdv >= 1000000 /\ volume24h >= 1200000
            /\ txns24h >= 30
       [] tier = "Old Mid-Caps" ->
            liquidity >= 100000 /\ fdv >= 200000 /\ fdv <= 100000000
            /\ 720 <= pair_age /\ pair_age <= 2800 /\ volume24h >= 200000
            /\ txns24h >= 2000
       [] tier = "Larger Mid Caps" ->
            liquidity >= 200000 /\ fdv >= 1000000 /\ volume6h >= 150000
       [] OTHER -> FALSE

\* the order in which categorize_token tests the tiers
TierOrder == <<"Very Degen", "Degen", "Mid-Caps", "Old Mid-Caps", "Larger Mid Caps">>

\* the chain of if statements over the tiers in the given order: the first
\* tier whose predicate holds, "None" when none does
RECURSIVE FirstTier(_, _, _)
FirstTier(t, order, i) ==
  IF i > Len(order) THEN "None"
  ELSE IF TierHolds(order[i], t) THEN order[i]
  ELSE FirstTier(t, order, i + 1)

categorize_token_DegenFirst(t) ==
  IF CategorizeRaises(t) \/ HardReject(t) THEN "None"
  ELSE FirstTier(t, <<"Degen", "Very Degen", "Mid-Caps", "Old Mid-Caps",
                      "Larger Mid Caps">>, 1)

categorize_token_NoHardReject(t) ==
  IF CategorizeRaises(t) THEN "None" ELSE FirstTier(t, TierOrder, 1)

\* categorize_token of v6: "None" stands for Python's None
categorize_token(t) ==
  IF CategorizeRaises(t) THEN "None"
  ELSE IF HardReject(t) THEN "None"
  ELSE FirstTier(t, TierOrder, 1)

\* advanced_rug_pull_check.  v1 and v2 test volume and price only; v3 reads
\* marketCapUsd alone; v5 falls back to fdvUsd.
RugCheckMarketCap(r, t) == IF r = "v3" THEN t.marketCapUsd ELSE MarketCapOrFdv(t)

RugCheckReason_NoCapFloor(r, t) ==
  IF Raises(t.volumeUsd24Hr) THEN "error"
  ELSE IF Float(t.volumeUsd24Hr) < MIN_VOLUME THEN "volume"
  ELSE IF Raises(t.priceUsd) THEN "error"
  ELSE IF Float(t.priceUsd) < MIN_PRICE THEN "price"
  ELSE "pass"

\* the return statement advanced_rug_pull_check leaves by: the floor that
\* flagged the token ("market_cap", "volume", "price"), "error" for the
\* except clause, "pass" for return False
RugCheckReason(r, t) ==
  LET capChecked == r \in {"v3", "v5"}
      cap == RugCheckMarketCap(r, t)
  IN IF capChecked /\ Raises(cap) THEN "error"
     ELSE IF capChecked /\ Float(cap) < MIN_MARKET_CAP THEN "market_cap"
     ELSE IF Raises(t.volumeUsd24Hr) THEN "error"
     ELSE IF Float(t.volumeUsd24Hr) < MIN_VOLUME THEN "volume"
     ELSE IF Raises(t.priceUsd) THEN "error"
     ELSE IF Float(t.priceUsd) < MIN_PRICE THEN "price"
     ELSE "pass"

advanced_rug_pull_check_FailOpen(r, t) ==
  RugCheckReason(r, t) \in {"market_cap", "volume", "price"}

\* TRUE when the token is flagged as risky; the except clause returns True
advanced_rug_pull_check(r, t) == RugCheckReason(r, t) # "pass"

\* ----------------------------------------------------- trades and positions
\* key under which main() remembers a token in discovered; "" when the
\* record has none (v1, v2: no symbol)
DedupKey(r, t) ==
  IF r \in {"v1", "v2"} THEN t.symbol
  ELSE IF t.symbol # "" THEN t.symbol
  ELSE IF t.tokenAddress # "" THEN t.tokenAddress
  ELSE "Unknown"

BuyGate_NoCategoryCheck(r, t) ==
  CASE r \in {"v1", "v2", "v3"} ->
         IF advanced_rug_pull_check(r, t) THEN "skip"
         ELSE IF t.tokenAddress = "" THEN "skip" ELSE "trade"
    [] r = "v4" ->
         IF t.tokenAddress = "" THEN "skip" ELSE "trade"
    [] r = "v5" ->
         IF score_token(t) < MIN_SCORE_THRESHOLD \/ advanced_rug_pull_check(r, t) THEN "skip"
         ELSE IF t.tokenAddress = "" THEN "skip" ELSE "trade"
    [] r = "v6" ->
         IF score_token(t) < MIN_SCORE_THRESHOLD THEN "skip" ELSE "raise"

\* the checks of buy_token ahead of the trade: "skip" (return None),
\* "raise" (an exception leaves buy_token) or "trade"
BuyGate(r, t) ==
  CASE r \in {"v1", "v2", "v3"} ->
         IF advanced_rug_pull_check(r, t) THEN "skip"
         ELSE IF t.tokenAddress = "" THEN "skip" ELSE "trade"
    [] r = "v4" ->
         IF t.tokenAddress = "" THEN "skip" ELSE "trade"
    [] r = "v5" ->
         IF score_token(t) < MIN_SCORE_THRESHOLD \/ advanced_rug_pull_check(r, t) THEN "skip"
         ELSE IF t.tokenAddress = "" THEN "skip" ELSE "trade"
    [] r = "v6" ->
         \* advanced_rug_pull_check is not defined in v6: evaluating the third
         \* operand of the or raises NameError
         IF categorize_token(t) = "None" \/ score_token(t) < MIN_SCORE_THRESHOLD THEN "skip"
         ELSE "raise"

\* what the ledger gateway can do with a transfer; it is reached in live
\* mode only
GatewayOutcomes(r, real) == IF r \in LiveRevs /\ real THEN {"ok", "raise"} ELSE {"ok"}

execute_trade_IgnoresFlag(r, real, g) ==
  IF r \in LiveRevs
  THEN (IF g = "ok" THEN "response" ELSE "raise")
  ELSE "price"

\* execute_trade / execute_dex_trade for a buy or a sell: "price" when the
\* fixed simulated price is returned, "response" when the transfer went
\* through, "raise" when send_sol_transfer raised
execute_trade(r, real, g) ==
  IF r \in LiveRevs /\ real
  THEN (IF g = "ok" THEN "response" ELSE "raise")
  ELSE "price"

\* the arguments execute_trade is called with: the actions of buy_token and
\* sell_token and one other, RISK_AMOUNT and the quantities of positions
TradeActions == {"buy", "sell", "hold"}
TradeAmounts == {1, 10, 100}

\* 0.01 SOL, in lamports
TRANSFER_LAMPORTS == 10000000
TEST_RECIPIENT == "RecipientPublicKeyHere"

execute_trade_call_PaysAmount(r, real, token_address, action, amount, g) ==
  IF r \in LiveRevs /\ real
  THEN [ret |-> execute_trade(r, real, g),
        transfers |-> <<[recipient |-> token_address, lamports |-> amount]>>]
  ELSE [ret |-> "price", transfers |-> <<>>]

\* execute_trade(token_address, action, amount) with its arguments: what it
\* returns ("none" for Python's None) and the send_sol_transfer calls it
\* makes
execute_trade_call(r, real, token_address, action, amount, g) ==
  IF r \in LiveRevs /\ real
  THEN IF action \in {"buy", "sell"}
       THEN [ret |-> execute_trade(r, real, g),
             transfers |-> <<[recipient |-> TEST_RECIPIENT,
                              lamports |-> TRANSFER_LAMPORTS]>>]
       ELSE [ret |-> "none", transfers |-> <<>>]
  ELSE [ret |-> "price", transfers |-> <<>>]

\* buy_token: "none", "raise" or "position"
buy_token(r, real, t, g) ==
  CASE BuyGate(r, t) = "skip" -> "none"
    [] BuyGate(r, t) = "raise" -> "raise"
    [] OTHER -> IF execute_trade(r, real, g) = "raise" THEN "raise" ELSE "position"

NewPosition_QuantityIsRisk(r, t) ==
  [token |-> t, buy_price |-> SIMULATED_PRICE, quantity |-> RISK_AMOUNT(r)]

\* the position dictionary buy_token returns
NewPosition(r, t) ==
  [token |-> t, buy_price |-> SIMULATED_PRICE,
   quantity |-> (RISK_AMOUNT(r) * PriceUnitsPerUsd) \div SIMULATED_PRICE]

\* rounding of the double product 0.1 * (m / 10) against the exact product
ProductRounding(m) ==
  CASE m = 14 -> -1
    [] m = 15 -> 1
    [] m = 8 -> 1
    [] OTHER -> 0

\* the sign of a price: the double product is rounded away from or towards
\* zero alike for 0.1 and -0.1, and 0 times anything is 0
Sign(p) == IF p > 0 THEN 1 ELSE IF p < 0 THEN 0 - 1 ELSE 0

target_price(r, pos) ==
  (pos.buy_price * PROFIT_TARGET_MULTIPLIER(r)) \div 10
    + Sign(pos.buy_price) * ProductRounding(PROFIT_TARGET_MULTIPLIER(r))

stop_loss_price(r, pos) ==
  (pos.buy_price * STOP_LOSS_RATIO) \div 10
    + Sign(pos.buy_price) * ProductRounding(STOP_LOSS_RATIO)

\* the for loop of monitor_position: index of the first record of the
\* snapshot with the position's address, 0 when there is none
RECURSIVE FirstMatch(_, _, _)
FirstMatch(tokens, addr, i) ==
  IF i > Len(tokens) THEN 0
  ELSE IF tokens[i].tokenAddress = addr THEN i
  ELSE FirstMatch(tokens, addr, i + 1)

\* what one pass of the monitor loop sees of a snapshot: whether a record
\* with the position's address was found, and its priceUsd field
Observe(tokens, addr) ==
  LET j == FirstMatch(tokens, addr, 1)
  IN IF j = 0 THEN [found |-> FALSE, price |-> Absent]
     ELSE [found |-> TRUE, price |-> tokens[j].priceUsd]

Decision_StopLossFirst(r, pos, price) ==
  IF price <= stop_loss_price(r, pos) THEN "stop"
  ELSE IF price >= target_price(r, pos) THEN "profit"
  ELSE "hold"

Decision_Strict(r, pos, price) ==
  IF price > target_price(r, pos) THEN "profit"
  ELSE IF price < stop_loss_price(r, pos) THEN "stop"
  ELSE "hold"

\* the decision of one poll on a parsed price: "profit", "stop" or "hold"
Decision(r, pos, price) ==
  IF price >= target_price(r, pos) THEN "profit"
  ELSE IF price <= stop_loss_price(r, pos) THEN "stop"
  ELSE "hold"

AfterSell_Retry(r, real, g) ==
  IF execute_trade(r, real, g) = "raise" THEN "running" ELSE "finished"

AfterSell_NoBreak(r, real, g) ==
  IF execute_trade(r, real, g) = "raise" THEN "died" ELSE "running"

\* where the monitor thread is after sell_token(position): the break ends
\* the loop and the thread, an exception out of sell_token kills the thread
AfterSell(r, real, g) ==
  IF execute_trade(r, real, g) = "raise" THEN "died" ELSE "finished"

Addresses == {t.tokenAddress : t \in Catalogue \cup EvalRecords} \ {""}

\* ------------------------------------------------------------------ state
VARIABLES
  rev,                \* the revision that runs
  REAL_TRANSACTIONS,  \* the configuration flag of v5 and v6
  mainPc,             \* where main() is: fetch, loop, append, sleep, crashed
  fetched,            \* tokens: the snapshot of the current pass
  pending,            \* records of the for loop not yet visited
  discovered,         \* main()'s set discovered
  positions,          \* main()'s list positions
  threads,            \* the monitor threads ever started, in start order
  buys,               \* per address, the execute_trade buy calls made
  seenAddresses,      \* history: addresses of the records of earlier passes
  ev                  \* history: the operation that acted last

vars == <<rev, REAL_TRANSACTIONS, mainPc, fetched, pending, discovered,
          positions, threads, buys, seenAddresses, ev>>

NoEvent ==
  [op |-> "init", key |-> "", scored |-> {}, categorized |-> {}, bought |-> {},
   mon |-> 0, found |-> FALSE, price |-> Absent, ret |-> "", gateway |-> "",
   status |-> 0, sent |-> 0]

Init ==
  /\ rev \in Revisions
  /\ REAL_TRANSACTIONS \in (IF rev \in LiveRevs THEN BOOLEAN ELSE {FALSE})
  /\ mainPc = "fetch"
  /\ fetched = <<>>
  /\ pending = <<>>
  /\ discovered = {}
  /\ positions = <<>>
  /\ threads = <<>>
  /\ buys = [a \in Addresses |-> 0]
  /\ seenAddresses = {}
  /\ ev = NoEvent

KeysOf(r, tokens) == {DedupKey(r, tokens[i]) : i \in 1..Len(tokens)}

NoTokensStep_Forget(d) == {}

\* the else branch of "if tokens:": a message is printed; discovered stays
\* as it is
NoTokensStep(d) == d

\* main(): tokens = fetch_tokens(), the test "if tokens:", then the score
\* filter of v4..v6.  A returned number is truthy, and the for statement
\* over it (in main(), in filter_tokens) raises TypeError.
MainFetch(resp) ==
  /\ mainPc = "fetch"
  /\ LET tokens == fetch_tokens(rev, resp)
         fetchEvent == [NoEvent EXCEPT !.op = "fetch", !.ret = tokens.kind,
                          !.status = resp.status]
     IN /\ fetched' = tokens.items
        /\ CASE tokens.kind = "number" ->
                  /\ mainPc' = "crashed"
                  /\ pending' = <<>>
                  /\ ev' = fetchEvent
                  /\ UNCHANGED discovered
             [] tokens.kind = "none" \/ tokens.items = <<>> ->
                  /\ mainPc' = "sleep"
                  /\ pending' = <<>>
                  /\ ev' = fetchEvent
                  /\ discovered' = NoTokensStep(discovered)
             [] OTHER ->
                  /\ mainPc' = "loop"
                  /\ pending' = (IF rev \in ScoringRevs THEN filter_tokens(tokens.items)
                                 ELSE tokens.items)
                  /\ ev' = [fetchEvent EXCEPT
                              !.scored = IF rev \in ScoringRevs
                                         THEN KeysOf(rev, tokens.items) ELSE {}]
                  /\ UNCHANGED discovered
  /\ UNCHANGED <<rev, REAL_TRANSACTIONS, positions, threads, buys, seenAddresses>>

SkippedByMain_NoDedup(r, t, seen) ==
  IF r \in {"v1", "v2"} THEN t.symbol = ""
  ELSE IF r = "v6" THEN categorize_token(t) = "None"
  ELSE FALSE

\* the dedup test of one loop iteration: TRUE when the record is passed over
\* without being added to discovered
SkippedByMain(r, t, seen) ==
  IF r \in {"v1", "v2"} THEN t.symbol = "" \/ t.symbol \in seen
  ELSE IF r = "v6" THEN categorize_token(t) = "None" \/ DedupKey(r, t) \in seen
  ELSE DedupKey(r, t) \in seen

\* one iteration of the for loop of main(), up to and including
\* monitor_thread.start()
MainIter(g) ==
  /\ mainPc = "loop"
  /\ pending # <<>>
  /\ buy_token(rev, REAL_TRANSACTIONS, Head(pending), g) = "position"
       /\ ~SkippedByMain(rev, Head(pending), discovered)
       => Len(threads) < MaxMonitors
  /\ LET t == Head(pending)
         key == DedupKey(rev, t)
         cat == IF rev = "v6" THEN {key} ELSE {}
     IN /\ pending' = Tail(pending)
        /\ IF SkippedByMain(rev, t, discovered)
           THEN /\ ev' = [NoEvent EXCEPT !.op = "iter", !.key = key, !.categorized = cat]
                /\ UNCHANGED <<mainPc, discovered, threads, buys>>
           ELSE LET res == buy_token(rev, REAL_TRANSACTIONS, t, g)
                    traded == BuyGate(rev, t) = "trade"
                    evaluated == IF rev \in {"v5", "v6"} THEN {key} ELSE {}
                IN /\ discovered' = discovered \cup {key}
                   /\ ev' = [NoEvent EXCEPT !.op = "iter", !.key = key,
                               !.scored = evaluated, !.categorized = cat,
                               !.bought = {key},
                               !.gateway =
                                 IF traded
                                    /\ execute_trade(rev, REAL_TRANSACTIONS, g) = "raise"
                                 THEN "raise" ELSE "",
                               !.sent =
                                 IF traded
                                 THEN Len(execute_trade_call(rev, REAL_TRANSACTIONS,
                                            t.tokenAddress, "buy", RISK_AMOUNT(rev),
                                            g).transfers)
                                 ELSE 0]
                   /\ buys' = IF traded
                              THEN [buys EXCEPT ![t.tokenAddress] = @ + 1]
                              ELSE buys
                   /\ threads' = IF res = "position"
                                 THEN Append(threads,
                                        [position |-> NewPosition(rev, t),
                                         pc |-> "running", branch |-> "none",
                                         sells |-> 0])
                                 ELSE threads
                   /\ mainPc' = CASE res = "position" -> "append"
                                  [] res = "raise" -> "crashed"
                                  [] OTHER -> "loop"
  /\ UNCHANGED <<rev, REAL_TRANSACTIONS, fetched, positions, seenAddresses>>

WaitsFor_Join(ths) == {Len(ths)}

\* the monitor threads main() joins after monitor_thread.start(): none, the
\* next statement is positions.append
WaitsFor(ths) == {}

\* positions.append(position), after the thread has been started
MainAppend ==
  /\ mainPc = "append"
  /\ \A j \in WaitsFor(threads) : threads[j].pc # "running"
  /\ positions' = Append(positions, threads[Len(threads)].position)
  /\ mainPc' = "loop"
  /\ ev' = [NoEvent EXCEPT !.op = "append"]
  /\ UNCHANGED <<rev, REAL_TRANSACTIONS, fetched, pending, discovered,
                 threads, buys, seenAddresses>>

\* the for loop is exhausted: main() goes to time.sleep(POLL_INTERVAL)
MainLoopEnd ==
  /\ mainPc = "loop"
  /\ pending = <<>>
  /\ mainPc' = "sleep"
  /\ ev' = [NoEvent EXCEPT !.op = "loopend"]
  /\ UNCHANGED <<rev, REAL_TRANSACTIONS, fetched, pending, discovered,
                 positions, threads, buys, seenAddresses>>

\* time.sleep(POLL_INTERVAL) returns; tokens is dead until the next fetch
\* assigns it
MainSleep ==
  /\ mainPc = "sleep"
  /\ mainPc' = "fetch"
  /\ fetched' = <<>>
  /\ seenAddresses' =
       seenAddresses \cup ({fetched[i].tokenAddress : i \in 1..Len(fetched)} \ {""})
  /\ ev' = [NoEvent EXCEPT !.op = "sleep"]
  /\ UNCHANGED <<rev, REAL_TRANSACTIONS, pending, discovered, positions,
                 threads, buys>>

PositionsAfterClose_Remove(ps, pos) ==
  LET Other(p) == p # pos IN SelectSeq(ps, Other)

\* the positions list once a monitor has sold: monitor_position has no
\* statement on positions, the entry stays
PositionsAfterClose(ps, pos) == ps

PositionAfterPoll_Trailing(pos, price) == [pos EXCEPT !.buy_price = price]

\* the position dictionary after a pass that sold nothing: buy_price,
\* target_price and stop_loss_price are read once before the loop and
\* nothing is assigned in it
PositionAfterPoll(pos, price) == pos

NoDataStep_GiveUp(th) == [th EXCEPT !.pc = "finished"]

\* "if not current_token": the monitor sleeps and takes the loop again
NoDataStep(th) == th

\* one pass of the while loop of monitor_position for thread i, on the
\* response its fetch_tokens() got.  The for statement over a returned
\* value that is not a list raises TypeError, which ends the thread.
MonitorPoll(i, resp, g) ==
  /\ i \in 1..Len(threads)
  /\ threads[i].pc = "running"
  /\ LET pos == threads[i].position
         tokens == fetch_tokens(rev, resp)
         seen == Observe(tokens.items, pos.token.tokenAddress)
         pollEvent == [NoEvent EXCEPT !.op = "poll", !.mon = i, !.ret = tokens.kind,
                         !.status = resp.status]
     IN IF tokens.kind # "list"
        THEN /\ ev' = pollEvent
             /\ threads' = [threads EXCEPT ![i].pc = "died"]
             /\ UNCHANGED positions
        ELSE IF ~seen.found
        THEN /\ ev' = pollEvent
             /\ threads' = [threads EXCEPT ![i] = NoDataStep(@)]
             /\ UNCHANGED positions
        ELSE IF Raises(seen.price)
        THEN /\ ev' = [pollEvent EXCEPT !.found = TRUE, !.price = seen.price]
             /\ threads' = [threads EXCEPT ![i].pc = "died"]
             /\ UNCHANGED positions
        ELSE LET d == Decision(rev, pos, Float(seen.price))
                 sold == execute_trade(rev, REAL_TRANSACTIONS, g)
             IN IF d = "hold"
                THEN /\ ev' = [pollEvent EXCEPT !.found = TRUE, !.price = seen.price]
                     /\ threads' = [threads EXCEPT
                                      ![i].position =
                                        PositionAfterPoll(@, Float(seen.price))]
                     /\ UNCHANGED positions
                ELSE /\ ev' = [pollEvent EXCEPT
                                 !.found = TRUE, !.price = seen.price,
                                 !.gateway = IF sold = "raise" THEN "raise" ELSE "",
                                 !.sent =
                                   Len(execute_trade_call(rev, REAL_TRANSACTIONS,
                                         pos.token.tokenAddress, "sell",
                                         pos.quantity, g).transfers)]
                     /\ threads' =
                          [threads EXCEPT
                             ![i].branch = d,
                             ![i].sells = @ + 1,
                             ![i].pc = AfterSell(rev, REAL_TRANSACTIONS, g)]
                     /\ positions' = PositionsAfterClose(positions, pos)
  /\ UNCHANGED <<rev, REAL_TRANSACTIONS, mainPc, fetched, pending, discovered,
                 buys, seenAddresses>>

\* the snapshots a monitor's fetch can return, one for each thing the
\* monitor of address addr can see in a snapshot
RepresentativeSnapshots ==
  [addr \in Addresses |->
     LET views == {Observe(snap, addr) : snap \in Snapshots}
     IN {CHOOSE snap \in Snapshots : Observe(snap, addr) = v : v \in views}]

Next ==
  \/ \E snap \in Snapshots : MainFetch(WellFormed(rev, snap))
  \/ \E g \in GatewayOutcomes(rev, REAL_TRANSACTIONS) : MainIter(g)
  \/ MainAppend
  \/ MainLoopEnd
  \/ MainSleep
  \/ \E i \in 1..Len(threads) :
       \E snap \in RepresentativeSnapshots[threads[i].position.token.tokenAddress],
          g \in GatewayOutcomes(rev, REAL_TRANSACTIONS) :
         MonitorPoll(i, WellFormed(rev, snap), g)

Spec == Init /\ [][Next]_vars

\* responses that do not carry a list of records where fetch_tokens looks
MalformedResponses ==
  {Response("object", k, f, <<>>) : k \in {"data", "pairs"}, f \in {"null", "number"}}
    \cup { Response("scalar", "", "list", <<>>),
           Response("invalid", "", "list", <<>>),
           Response("object", "other", "list", <<VeryDegenRecord>>) }

\* every shape of response, with one record where a list is carried
EvalResponses ==
  { Response(sh.shape, sh.key, "list", <<t>>) :
      sh \in { [shape |-> "list", key |-> ""], [shape |-> "object", key |-> "data"],
               [shape |-> "object", key |-> "pairs"] },
      t \in EvalRecords }
    \cup MalformedResponses
    \cup { HttpError(Response("list", "", "list", <<t>>)) : t \in TierRecords }
    \cup { HttpError(Response("object", k, "list", <<t>>)) :
             k \in {"data", "pairs"}, t \in TierRecords }

\* One pass of main() over one response of any shape, carrying any of the
\* evaluation records, and the monitor of the position it opens.
EvalNext ==
  \/ \E resp \in EvalResponses : MainFetch(resp)
  \/ \E g \in GatewayOutcomes(rev, REAL_TRANSACTIONS) : MainIter(g)
  \/ MainAppend
  \/ MainLoopEnd
  \/ \E i \in 1..Len(threads) :
       \E resp \in MalformedResponses \cup
                    { WellFormed(rev, snap) :
                        snap \in RepresentativeSnapshots[
                                   threads[i].position.token.tokenAddress] },
          g \in GatewayOutcomes(rev, REAL_TRANSACTIONS) :
         MonitorPoll(i, resp, g)

EvalSpec == Init /\ [][EvalNext]_vars

\* buy prices monitor_position is run with: the fixed 0.1 USD of buy_token,
\* zero and -0.1 USD
BuyPrices == {SIMULATED_PRICE, 0, 0 - SIMULATED_PRICE}

\* the tier records with every value of priceUsd, a price below zero and
\* 0.12 USD, between the thresholds of a position bought at 0.1
PricedRecords ==
  {[b EXCEPT !.priceUsd = v] :
     b \in TierRecords,
     v \in FieldValues.priceUsd \cup {0 - SIMULATED_PRICE, 2400}}

\* monitor_position(position) running alone in a thread, for any position
\* dictionary; main() is not running
MonitorInit ==
  /\ rev \in Revisions
  /\ REAL_TRANSACTIONS \in (IF rev \in LiveRevs THEN BOOLEAN ELSE {FALSE})
  /\ mainPc = "sleep"
  /\ fetched = <<>>
  /\ pending = <<>>
  /\ \E t \in {VeryDegenRecord, MidCapsRecord}, bp \in BuyPrices :
       LET position == [token |-> t, buy_price |-> bp,
                        quantity |-> IF bp = SIMULATED_PRICE
                                     THEN NewPosition(rev, t).quantity
                                     ELSE 0]
       IN /\ discovered = {DedupKey(rev, t)}
          /\ positions = <<position>>
          /\ threads = << [position |-> position, pc |-> "running",
                           branch |-> "none", sells |-> 0] >>
  /\ buys = [a \in Addresses |-> 0]
  /\ seenAddresses = {}
  /\ ev = NoEvent

MonitorNext ==
  \E i \in 1..Len(threads) :
    \E resp \in MalformedResponses
                 \cup {WellFormed(rev, <<t>>) : t \in PricedRecords}
                 \cup {WellFormed(rev, <<>>),
                       WellFormed(rev, <<Rec("B", "S", 500000, 500000, 60000,
                                             1500000, 4000, 10, 40)>>)},
       g \in GatewayOutcomes(rev, REAL_TRANSACTIONS) :
      MonitorPoll(i, resp, g)

MonitorSpec == MonitorInit /\ [][MonitorNext]_vars

\* ------------------------------------------------------------ properties
\* main() is no longer working on the snapshot of the current pass
TickOver == mainPc \in {"sleep", "crashed"}

\* the record the for loop of main() visited last
LastVisited ==
  LET good == IF rev \in ScoringRevs THEN filter_tokens(fetched) ELSE fetched
  IN good[Len(good) - Len(pending)]

Threads == 1..Len(threads)

\* the floor checks of the eligibility rules: market cap, 24h volume, price
Eligible(t) == ~advanced_rug_pull_check("v5", t)

\* the records of the snapshot of the current pass
Fetched == {fetched[i] : i \in 1..Len(fetched)}

\* the tokens positions were opened for
Bought == {threads[i].position.token : i \in Threads}

\* revisions that define advanced_rug_pull_check
RugCheckRevs == {"v1", "v2", "v3", "v5"}

\* the lifecycle state of the position monitored by thread th: Open while
\* the monitor loops, closed by the branch that sold once the loop was left
\* by break, Closed_Error once sell_token raised out of the monitor
PositionState(th) ==
  CASE th.pc = "finished" /\ th.branch = "profit" -> "Closed_Profit"
    [] th.pc = "finished" /\ th.branch = "stop" -> "Closed_StopLoss"
    [] th.pc = "died" /\ th.sells = 1 -> "Closed_Error"
    [] OTHER -> "Open"

\* C1: a pass of main() of v6 that fetches the single Very Degen record,
\* when no earlier pass held a record with an address, ends with exactly one position for it (buy_price 0.1,
\* quantity RISK_AMOUNT / 0.1) and exactly one monitor
C1_EndToEndAcceptance ==
  ( /\ rev = "v6"
    /\ seenAddresses = {}
    /\ fetched = <<VeryDegenRecord>>
    /\ categorize_token(VeryDegenRecord) = "Very Degen"
    /\ score_token(VeryDegenRecord) >= MIN_SCORE_THRESHOLD
    /\ TickOver )
  => /\ Len(positions) = 1
     /\ positions[1].token = VeryDegenRecord
     /\ positions[1].buy_price = SIMULATED_PRICE
     /\ positions[1].quantity * SIMULATED_PRICE = RISK_AMOUNT("v6") * PriceUnitsPerUsd
     /\ Len(threads) = 1

\* C2: at a poll that finds a record of the position's address with price p:
\* p >= buy_price * PROFIT_TARGET_MULTIPLIER sells once and ends the monitor
\* on the profit branch; otherwise p <= buy_price * STOP_LOSS_RATIO sells
\* once and ends it on the stop-loss branch; a price strictly between the
\* two sells nothing and leaves the monitor running
C2_MonitorDecisionRule ==
  (ev.op = "poll" /\ ev.found /\ ~Raises(ev.price))
  => LET th == threads[ev.mon]
         p == Float(ev.price)
         target == target_price(rev, th.position)
         stop == stop_loss_price(rev, th.position)
     IN /\ p >= target
             => th.branch = "profit" /\ th.sells = 1 /\ th.pc # "running"
        /\ p < target /\ p <= stop
             => th.branch = "stop" /\ th.sells = 1 /\ th.pc # "running"
        /\ stop < p /\ p < target
             => th.branch = "none" /\ th.sells = 0 /\ th.pc = "running"

\* a poll saw a price equal to the profit target and closed the position
C2_Witness ==
  /\ ev.op = "poll" /\ ev.found
  /\ ev.price = target_price(rev, threads[ev.mon].position)
  /\ threads[ev.mon].branch = "profit"
  /\ \E i \in Threads : threads[i].branch = "stop"

\* C3: sell_token is invoked at most once per position and only by the
\* position's own monitor, and a monitor that has sold takes no further step
C3_ClosesExactlyOnce ==
  [][ /\ \A i \in 1..Len(threads') : threads'[i].sells <= 1
      /\ \A i \in Threads :
           /\ threads'[i].sells # threads[i].sells => ev'.op = "poll" /\ ev'.mon = i
           /\ threads[i].sells = 1
                => threads'[i] = threads[i] /\ ~(ev'.op = "poll" /\ ev'.mon = i) ]_vars

\* two monitors ran concurrently and each sold its position
C3_Witness ==
  /\ Len(threads) = 2
  /\ \A i \in Threads : threads[i].sells = 1
  /\ threads[1].position # threads[2].position

\* C4: once every spawned monitor has closed its position, the positions
\* list of main() is empty
C4_PositionsEmptiedOnClose ==
  ( /\ threads # <<>>
    /\ \A i \in Threads : threads[i].sells = 1
    /\ mainPc # "append" )
  => positions = <<>>

\* C5: a monitor thread exists only for a position already in positions
C5_RecordedBeforeSpawn ==
  \A i \in Threads : i <= Len(positions) /\ positions[i] = threads[i].position

\* C6: the gateway buy is never invoked twice for the same token address
C6_OneBuyPerAddress == \A a \in Addresses : buys[a] <= 1

\* C7: a record that passed the filters ahead of the dedup test, carries a
\* symbol and whose address was in no earlier pass is taken past the dedup
\* test (buy_token is called for it), also when earlier passes held records
\* of other addresses
C7_DedupByAddress ==
  [][ ( /\ ev'.op = "iter"
        /\ mainPc = "loop" /\ pending # <<>>
        /\ Head(pending).tokenAddress # ""
        /\ Head(pending).tokenAddress \notin seenAddresses
        /\ seenAddresses # {}
        /\ Head(pending).symbol # ""
        /\ rev = "v6" => categorize_token(Head(pending)) # "None" )
      => ev'.bought # {} ]_vars

C9_EverySeenTokenRecorded ==
  mainPc = "sleep"
  => \A i \in 1..Len(fetched) : DedupKey(rev, fetched[i]) \in discovered

\* C10: in v4, v5 and v6 every opened position is for a token with
\* score >= MIN_SCORE_THRESHOLD that passes the floor checks
C10_ScoreAndEligibility ==
  rev \in ScoringRevs
  => \A i \in Threads :
       /\ score_token(threads[i].position.token) >= MIN_SCORE_THRESHOLD
       /\ Eligible(threads[i].position.token)

\* C11: in v6 a record whose address is in the coin blacklist, whose
\* devAddress is in the dev blacklist, whose supplyBundled is true or whose
\* 24h volume is <= 0 gets category None whatever its other fields, and no
\* position is opened for it
C11_HardRejects ==
  rev = "v6"
  => \A t \in Fetched :
       ( \/ t.tokenAddress \in CoinBlacklist
         \/ t.devAddress \in DevBlacklist
         \/ t.supplyBundled
         \/ (t.volumeUsd24Hr # NonNumeric
             /\ (IF t.volumeUsd24Hr = Absent THEN 0 ELSE t.volumeUsd24Hr) <= 0) )
       => categorize_token(t) = "None" /\ t \notin Bought

\* main() of v6 categorized a blacklisted record that meets the Very Degen
\* predicate with score >= 2.0, and passed it over
C11_Witness ==
  /\ rev = "v6" /\ ev.op = "iter" /\ ev.categorized # {} /\ ev.bought = {}
  /\ Len(fetched) = 1
  /\ fetched[1].tokenAddress \in CoinBlacklist
  /\ TierHolds("Very Degen", fetched[1])
  /\ score_token(fetched[1]) >= MIN_SCORE_THRESHOLD
  /\ mainPc = "loop" /\ threads = <<>>

C13_TierPriority ==
  rev = "v6"
  => \A t \in Fetched :
       (~CategorizeRaises(t) /\ ~HardReject(t))
       => LET order == <<"Very Degen", "Degen", "Mid-Caps", "Old Mid-Caps",
                         "Larger Mid Caps">>
              c == categorize_token(t)
          IN /\ \A i \in 1..5 :
                  c = order[i]
                  <=> (TierHolds(order[i], t)
                       /\ \A j \in 1..(i - 1) : ~TierHolds(order[j], t))
             /\ c = "None" <=> \A i \in 1..5 : ~TierHolds(order[i], t)
             /\ (TierHolds("Very Degen", t) /\ TierHolds("Degen", t))
                  => c = "Very Degen"

\* main() of v6 categorized a record that meets both the Very Degen and the
\* Degen predicate
C13_Witness ==
  /\ rev = "v6" /\ ev.op = "iter" /\ ev.categorized # {}
  /\ fetched = <<BothTiersRecord>>
  /\ TierHolds("Very Degen", BothTiersRecord) /\ TierHolds("Degen", BothTiersRecord)
  /\ categorize_token(BothTiersRecord) = "Very Degen"

\* C14: in v6 no position is opened and no gateway call is made for a
\* record of category None, also when its score is >= MIN_SCORE_THRESHOLD:
\* main() passes it over, and buy_token returns None for it
C14_NoTierNotActionable ==
  rev = "v6"
  => /\ \A t \in Bought : categorize_token(t) # "None"
     /\ (ev.op = "iter" /\ categorize_token(LastVisited) = "None")
          => ev.bought = {} /\ ev.gateway = "" /\ mainPc = "loop"
     /\ \A t \in Fetched :
          categorize_token(t) = "None"
          => \A g \in {"ok", "raise"} :
               buy_token(rev, REAL_TRANSACTIONS, t, g) = "none"

\* main() of v6 met a record of category None and score >= 2.0 and passed
\* it over
C14_Witness ==
  /\ rev = "v6" /\ ev.op = "iter"
  /\ categorize_token(LastVisited) = "None"
  /\ score_token(LastVisited) >= MIN_SCORE_THRESHOLD
  /\ ev.bought = {} /\ mainPc = "loop"

\* C15: score_token, categorize_token and advanced_rug_pull_check (in the
\* revisions that define it) return a value for every record: an absent
\* field counts as 0; a field that does not parse gives score 0, category
\* None and a flagged token; main() is not ended by evaluating a record with
\* such a field, and no position is opened for it
C15_FailSafeEvaluation ==
  \A t \in Fetched :
    LET num(v) == IF v = Absent THEN 0 ELSE v
        capField == IF t.marketCapUsd # Absent THEN t.marketCapUsd ELSE t.fdvUsd
        scoreFails == NonNumeric \in {capField, t.liquidityUsd, t.volumeUsd24Hr}
        fdvField == IF t.fdvUsd # Absent THEN t.fdvUsd ELSE t.marketCapUsd
        categorizeFails ==
          NonNumeric \in {fdvField, t.liquidityUsd, t.pairAgeHours, t.txns1h,
                          t.txns24h, t.volumeUsd24Hr, t.volumeUsd6h}
        rugFields ==
          {t.volumeUsd24Hr, t.priceUsd}
            \cup (CASE rev = "v3" -> {t.marketCapUsd}
                    [] rev = "v5" -> {capField}
                    [] OTHER -> {})
        rugFails == NonNumeric \in rugFields
        fails == \/ rev \in ScoringRevs /\ scoreFails
                 \/ rev = "v6" /\ categorizeFails
                 \/ rev \in RugCheckRevs /\ rugFails
    IN /\ scoreFails => score_token(t) = 0
       /\ ~scoreFails
            => score_token(t)
                 = 10 * num(capField) + 20 * num(t.liquidityUsd) + num(t.volumeUsd24Hr)
       /\ categorizeFails => categorize_token(t) = "None"
       /\ (rev \in RugCheckRevs /\ rugFails) => advanced_rug_pull_check(rev, t)
       /\ fails => t \notin Bought
       /\ (fails /\ ev.op = "iter" /\ LastVisited = t) => mainPc = "loop"

\* buy_token of v5 was called for a record whose priceUsd does not parse
\* and whose other fields pass every check, and returned None
C15_Witness ==
  /\ rev = "v5" /\ ev.op = "iter" /\ ev.bought # {}
  /\ Len(fetched) = 1
  /\ fetched[1].priceUsd = NonNumeric
  /\ score_token(fetched[1]) >= MIN_SCORE_THRESHOLD
  /\ RugCheckReason(rev, fetched[1]) = "error"
  /\ fetched[1].tokenAddress # ""
  /\ mainPc = "loop" /\ threads = <<>>

\* C16: in v5 and v6 no exception raised while a token is evaluated leaves
\* buy_token: an iteration of main() that called no failing gateway
\* operation leaves main() running
C16_EvaluationNeverKillsLoop ==
  (rev \in {"v5", "v6"} /\ ev.op = "iter" /\ ev.gateway # "raise")
  => mainPc # "crashed"

\* C17: in live mode, when the transfer of a buy fails, no position is
\* created for the token and main() keeps running
C17_BuyFailureNotFatal ==
  (rev \in LiveRevs /\ REAL_TRANSACTIONS /\ ev.op = "iter" /\ ev.gateway = "raise")
  => mainPc = "loop" /\ LastVisited \notin Bought

\* C18: when the sell invoked by a monitor fails, the monitor ends with the
\* position in the state Closed_Error, which is none of Open, Closed_Profit
\* and Closed_StopLoss, after exactly one sell attempt
C18_SellFailureClosesInError ==
  /\ (ev.op = "poll" /\ ev.gateway = "raise")
       => /\ threads[ev.mon].pc = "died"
          /\ threads[ev.mon].sells = 1
          /\ PositionState(threads[ev.mon]) = "Closed_Error"
  /\ \A i \in Threads :
       PositionState(threads[i]) = "Closed_Error"
       => threads[i].pc # "running" /\ threads[i].sells = 1

\* the transfer of a sell failed and the monitor ended, while the monitor
\* of another position goes on
C18_Witness ==
  /\ ev.op = "poll" /\ ev.gateway = "raise"
  /\ PositionState(threads[ev.mon]) = "Closed_Error"
  /\ \E i \in Threads : threads[i].pc = "running"

\* C19: a poll whose snapshot has no record of the position's address
\* invokes no sell and leaves the monitor as it was when it started: running,
\* position open, with no count of the misses
C19_MissingDataNeverCloses ==
  (ev.op = "poll" /\ ev.ret = "list" /\ ~ev.found)
  => /\ threads[ev.mon]
          = [position |-> threads[ev.mon].position, pc |-> "running",
             branch |-> "none", sells |-> 0]
     /\ ev.gateway = ""
     /\ PositionState(threads[ev.mon]) = "Open"

\* a monitor polled a snapshot without its address while another monitor
\* had already closed its position
C19_Witness ==
  /\ ev.op = "poll" /\ ev.ret = "list" /\ ~ev.found
  /\ threads[ev.mon].pc = "running"
  /\ \E i \in Threads : threads[i].sells = 1

\* C20: what fetch_tokens returns to main() and to a monitor is a list
C20_FetchReturnsList ==
  ev.op \in {"fetch", "poll"} => ev.ret = "list"

\* C21: a feed response with a status outside 200..299 is a fetch failure:
\* fetch_tokens returns the empty list whatever the body, and main() goes to
\* sleep without visiting a record of it
C21_ErrorStatusIsFetchFailure ==
  (ev.op = "fetch" /\ ev.status \notin 200..299)
  => fetched = <<>> /\ pending = <<>> /\ mainPc = "sleep"

\* C22: a pass whose fetch failed or returned no record changes neither
\* discovered nor positions, starts no monitor, makes no trade, and main()
\* goes on to the sleep before the next pass
C22_EmptyFetchLeavesState ==
  [][(mainPc = "fetch" /\ ev'.op = "fetch" /\ ev'.ret \in {"list", "none"}
        /\ fetched' = <<>>)
     => /\ discovered' = discovered
        /\ positions' = positions
        /\ threads' = threads
        /\ buys' = buys
        /\ ev'.sent = 0
        /\ mainPc' = "sleep"]_vars

\* an empty fetch in a run that has discovered tokens, holds a position and
\* has a monitor running
C22_Witness ==
  /\ ev.op = "fetch" /\ fetched = <<>> /\ mainPc = "sleep"
  /\ discovered # {}
  /\ positions # <<>>
  /\ \E i \in Threads : threads[i].pc = "running"

\* C23: a poll that finds the position's record with a priceUsd that is not
\* a number does not end the monitor by an exception
C23_NonNumericPriceNotFatal ==
  (ev.op = "poll" /\ ev.found /\ ev.price = NonNumeric)
  => threads[ev.mon].pc # "died"

\* C24: while a monitor is running main() is never held back: whatever
\* statement it is at, its next step can be taken
C24_DiscoveryNeverWaits ==
  (\E i \in Threads : threads[i].pc = "running")
  => /\ mainPc = "append" => ENABLED MainAppend
     /\ mainPc = "sleep" => ENABLED MainSleep
     /\ mainPc = "fetch"
          => ENABLED (\E snap \in Snapshots : MainFetch(WellFormed(rev, snap)))
     /\ (mainPc = "loop" /\ pending = <<>>) => ENABLED MainLoopEnd
     /\ (mainPc = "loop" /\ pending # <<>> /\ Len(threads) < MaxMonitors)
          => ENABLED (\E g \in GatewayOutcomes(rev, REAL_TRANSACTIONS) : MainIter(g))

\* a later pass has started the monitor of a second position while the
\* monitor of the first, opened in an earlier pass, is still running
C24_Witness ==
  /\ mainPc = "append"
  /\ Len(threads) = 2 /\ Len(positions) = 1
  /\ threads[1].pc = "running" /\ threads[2].pc = "running"
  /\ threads[1].position.token.tokenAddress \in seenAddresses

\* C25: every position, monitored or in positions, has buy_price > 0,
\* quantity = RISK_AMOUNT / buy_price and
\* stop_loss_price < buy_price < target_price
C25_PositionWellFormed ==
  \A pos \in {threads[i].position : i \in Threads}
              \cup {positions[i] : i \in 1..Len(positions)} :
    /\ pos.buy_price > 0
    /\ pos.quantity * pos.buy_price = RISK_AMOUNT(rev) * PriceUnitsPerUsd
    /\ stop_loss_price(rev, pos) < pos.buy_price
    /\ pos.buy_price < target_price(rev, pos)

\* two positions are held, one of them closed by its monitor
C25_Witness ==
  /\ Len(positions) = 2
  /\ \E i \in Threads : threads[i].sells = 1

\* C26: discovered and positions are changed by main() alone, and only by
\* insertion: a step that changes either is a loop iteration or the append
\* of main(), and a pass of a monitor leaves both as they were
C26_RegistriesMutatedByMainOnly ==
  [][/\ (discovered' # discovered \/ positions' # positions)
          => ev'.op \in {"iter", "append"}
     /\ ev'.op = "poll" => discovered' = discovered /\ positions' = positions
     /\ discovered \subseteq discovered'
     /\ Len(positions') >= Len(positions)
     /\ SubSeq(positions', 1, Len(positions)) = positions]_vars

\* a monitor has sold the position that main() had appended to positions
C26_Witness ==
  /\ ev.op = "poll"
  /\ threads[ev.mon].sells = 1
  /\ \E i \in 1..Len(positions) : positions[i] = threads[ev.mon].position
  /\ discovered # {}

\* C27: for a record whose fields parse, the score is
\* market cap / 100000 + liquidity / 50000 + 24h volume / 1000000 (here in
\* millionths), it is >= 0 when the three inputs are, and raising one input
\* never lowers it
C27_ScoreFormula ==
  rev \in ScoringRevs =>
    \A t \in Fetched :
      ~ScoreRaises(t) =>
        LET mc == Float(MarketCapOrFdv(t))
            liq == Float(t.liquidityUsd)
            vol == Float(t.volumeUsd24Hr)
        IN /\ score_token(t) = (1000000 \div 100000) * mc + (1000000 \div 50000) * liq
                                 + (1000000 \div 1000000) * vol
           /\ (mc >= 0 /\ liq >= 0 /\ vol >= 0) => score_token(t) >= 0
           /\ \A f \in {"marketCapUsd", "liquidityUsd", "volumeUsd24Hr"} :
                \A v \in FieldValues[f] \ {NonNumeric, Absent} :
                  (t[f] \notin {NonNumeric, Absent} /\ v >= t[f])
                  => score_token([t EXCEPT ![f] = v]) >= score_token(t)

\* the score filter has scored a record that passes it with a 24h volume
\* other than its tier record's
C27_Witness ==
  /\ rev \in ScoringRevs
  /\ ev.op = "fetch" /\ ev.scored # {}
  /\ \E t \in Fetched :
       /\ t.volumeUsd24Hr = 200000 /\ t.liquidityUsd = 60000
       /\ score_token(t) = 6400000

\* C28: in v6 the category of a record that carries marketCapUsd is the one
\* computed from marketCapUsd, the figure score_token uses, whatever fdvUsd
\* holds
C28_SameMarketCapFigure ==
  rev = "v6" =>
    \A t \in Fetched :
      (t.marketCapUsd \notin {NonNumeric, Absent} /\ t.fdvUsd # NonNumeric)
      => categorize_token(t) = categorize_token([t EXCEPT !.fdvUsd = t.marketCapUsd])

\* C29: when the bot is not in live mode, execute_trade returns the fixed
\* price 0.1 whatever the gateway would do, no step sends a transfer, no
\* step fails in the gateway, and every position is bought at 0.1
C29_SimulationIsPure ==
  ~(rev \in LiveRevs /\ REAL_TRANSACTIONS) =>
    /\ \A g \in {"ok", "raise"} : execute_trade(rev, REAL_TRANSACTIONS, g) = "price"
    /\ ev.sent = 0
    /\ ev.gateway = ""
    /\ \A i \in Threads : threads[i].position.buy_price = SIMULATED_PRICE

\* a revision with a live mode, run in simulation, has bought one token and
\* its monitor has just sold it
C29_Witness ==
  /\ rev \in LiveRevs /\ ~REAL_TRANSACTIONS
  /\ ev.op = "poll"
  /\ threads[ev.mon].sells = 1
  /\ buys[threads[ev.mon].position.token.tokenAddress] = 1

\* C30: a pass of the monitor that sees a price both >= target_price and
\* <= stop_loss_price takes the profit branch, with a single sell
C30_ProfitHasPriority ==
  (ev.op = "poll" /\ ev.found /\ ~Raises(ev.price)
     /\ Float(ev.price) >= target_price(rev, threads[ev.mon].position)
     /\ Float(ev.price) <= stop_loss_price(rev, threads[ev.mon].position))
  => /\ threads[ev.mon].branch = "profit"
     /\ threads[ev.mon].sells = 1
     /\ threads[ev.mon].pc # "running"

\* the position was bought at -0.1 and the feed price is -0.1: above the
\* target and below the stop-loss price
C30_Witness ==
  /\ ev.op = "poll" /\ ev.found /\ ev.price = 0 - SIMULATED_PRICE
  /\ threads[ev.mon].position.buy_price = 0 - SIMULATED_PRICE
  /\ target_price(rev, threads[ev.mon].position) <= ev.price
  /\ ev.price <= stop_loss_price(rev, threads[ev.mon].position)
  /\ threads[ev.mon].branch = "profit"

\* C31: a monitor has left its loop only if one of its polls saw a price
\* >= target_price or <= stop_loss_price and sold
C31_TerminatesOnlyOnTrigger ==
  \A i \in Threads :
    threads[i].pc # "running"
    => threads[i].sells = 1 /\ threads[i].branch \in {"profit", "stop"}

\* C32: a poll that finds the record of a position bought at a positive
\* price, without priceUsd, takes the price as 0, sells once by the
\* stop-loss branch and leaves the loop; the close is a stop-loss close
\* unless the transfer of the sell raised
C32_MissingPriceClosesAtLoss ==
  (ev.op = "poll" /\ ev.found /\ ev.price = Absent
     /\ threads[ev.mon].position.buy_price > 0)
  => /\ Float(ev.price) = 0
     /\ threads[ev.mon].branch = "stop"
     /\ threads[ev.mon].sells = 1
     /\ threads[ev.mon].pc # "running"
     /\ ev.gateway # "raise" => PositionState(threads[ev.mon]) = "Closed_StopLoss"

\* the record of a position bought at 0.1 was found without priceUsd and
\* the position was closed by the stop-loss branch
C32_Witness ==
  /\ ev.op = "poll" /\ ev.found /\ ev.price = Absent
  /\ threads[ev.mon].position.buy_price = SIMULATED_PRICE
  /\ PositionState(threads[ev.mon]) = "Closed_StopLoss"

\* C33: discovered and positions only grow; buy_token is called only for a
\* key that is not yet in discovered, which is added by that step; the key
\* of every position is in discovered; and the positions and the monitors
\* started are never more than the keys in discovered
C33_RegistryGrowth ==
  [][/\ discovered \subseteq discovered'
     /\ Len(positions') >= Len(positions)
     /\ SubSeq(positions', 1, Len(positions)) = positions
     /\ (ev'.op = "iter" /\ ev'.bought # {})
          => /\ ev'.bought = {ev'.key}
             /\ ev'.key \notin discovered
             /\ ev'.key \in discovered'
     /\ \A i \in 1..Len(positions') :
          DedupKey(rev, positions'[i].token) \in discovered'
     /\ \A i \in 1..Len(threads') :
          DedupKey(rev, threads'[i].position.token) \in discovered'
     /\ Len(positions') <= Cardinality(discovered')
     /\ Len(threads') <= Cardinality(discovered')]_vars

\* with two positions held, main() passes over a record whose key is
\* already in discovered
C33_Witness ==
  /\ Len(positions) = 2 /\ Len(threads) = 2
  /\ Cardinality(discovered) >= 2
  /\ ev.op = "iter" /\ ev.bought = {} /\ ev.key \in discovered

\* C34: for a record without a token address that main() hands to
\* buy_token, buy_token returns None (main() goes on with the loop), no
\* transfer is sent and no position is opened
C34_NoAddressReturnsNone ==
  (ev.op = "iter" /\ ev.bought # {} /\ LastVisited.tokenAddress = "")
  => /\ mainPc = "loop"
     /\ ev.sent = 0 /\ ev.gateway = ""
     /\ LastVisited \notin Bought

\* C35: no pass of a monitor changes the position it monitors: buy_price,
\* quantity, target_price and stop_loss_price after the pass are those
\* before it
C35_MonitoringKeepsPosition ==
  [][\A i \in 1..Len(threads) :
       /\ threads'[i].position = threads[i].position
       /\ target_price(rev', threads'[i].position)
            = target_price(rev, threads[i].position)
       /\ stop_loss_price(rev', threads'[i].position)
            = stop_loss_price(rev, threads[i].position)]_vars

\* a pass saw the price 0.12 of a position bought at 0.1 and the monitor
\* goes on
C35_Witness ==
  /\ ev.op = "poll" /\ ev.found /\ ev.price = 2400
  /\ threads[ev.mon].pc = "running"
  /\ threads[ev.mon].position.buy_price = SIMULATED_PRICE

\* C36: in live mode execute_trade for buy or sell makes one transfer of
\* TRANSFER_LAMPORTS to TEST_RECIPIENT whatever the address and the amount,
\* for another action makes none and returns None; every trade step sent
\* one transfer, and every position has buy_price 0.1
C36_LiveTradesAreFixedTransfers ==
  (rev \in LiveRevs /\ REAL_TRANSACTIONS) =>
    /\ \A a \in Addresses, action \in TradeActions, amount \in TradeAmounts,
          g \in GatewayOutcomes(rev, REAL_TRANSACTIONS) :
         LET call == execute_trade_call(rev, REAL_TRANSACTIONS, a, action, amount, g)
         IN IF action \in {"buy", "sell"}
            THEN call.transfers = <<[recipient |-> TEST_RECIPIENT,
                                     lamports |-> TRANSFER_LAMPORTS]>>
            ELSE call.transfers = <<>> /\ call.ret = "none"
    /\ (ev.op = "iter" /\ (mainPc = "append" \/ ev.gateway = "raise")) => ev.sent = 1
    /\ (ev.op = "poll" /\ threads[ev.mon].sells = 1) => ev.sent = 1
    /\ ev.sent <= 1
    /\ \A i \in Threads : threads[i].position.buy_price = SIMULATED_PRICE

\* in live mode a buy sent its transfer and the position was created
C36_Witness ==
  /\ rev \in LiveRevs /\ REAL_TRANSACTIONS
  /\ ev.op = "iter" /\ ev.sent = 1 /\ mainPc = "append"
  /\ threads[Len(threads)].position.buy_price = SIMULATED_PRICE

\* C37: categorize_token of v6 returns Degen only for a pair age above 48
\* and at most 72 hours, and a record that meets the Degen condition with a
\* pair age from 1 to 48 hours, and is not rejected outright, is Very Degen
C37_DegenTierReach ==
  rev = "v6" =>
    \A t \in Fetched :
      /\ categorize_token(t) = "Degen"
           => Float(t.pairAgeHours) > 48 /\ Float(t.pairAgeHours) <= 72
      /\ (~CategorizeRaises(t) /\ ~HardReject(t) /\ TierHolds("Degen", t)
            /\ Float(t.pairAgeHours) >= 1 /\ Float(t.pairAgeHours) <= 48)
           => categorize_token(t) = "Very Degen"

\* main() of v6 categorized a record that meets the Degen condition at a
\* pair age of 48 hours
C37_Witness ==
  /\ rev = "v6" /\ ev.op = "iter" /\ ev.categorized # {}
  /\ \E t \in Fetched :
       /\ TierHolds("Degen", t) /\ t.pairAgeHours = 48
       /\ categorize_token(t) = "Very Degen"

====
